---- MODULE Spec2Model ----
(***************************************************************************)
(* State-machine model of the sampling engine and the auto-management      *)
(* policy of the terminal monitor in src/bruh2.c: the CPU sampler with its *)
(* history rings (cpu_sample, push_hist), the process scanner              *)
(* (scan_processes), the resource policy (manage_resources,                *)
(* resume_suspended) and the key handlers of main's polling loop.          *)
(*                                                                         *)
(* Conventions.  A C double is an exact rational <<num, den>> with den > 0 *)
(* in lowest terms; a division by zero would show as den = 0.  A command   *)
(* name is a sequence of one-character strings so that strstr() is a real  *)
(* substring search.  What a handler reads from /proc, the value returned  *)
(* by now_ms() and the result of kill() are inputs of the action, drawn    *)
(* from the small sets defined below.                                      *)
(***************************************************************************)
EXTENDS Integers, Sequences, FiniteSets, TLC

(* ------------------------------ Tunables ------------------------------ *)
MAX_CORES == 128
MAX_PROCS == 2048
CPU_MS == 250
PROC_MS == 1500
FRAME_MS == 166
\* HIST_W is 120 and MAX_PRIORITY_PROCS is 10 in the source; the model runs
\* the same code with shorter arrays.
HIST_W == 3
MAX_PRIORITY_PROCS == 2
\* sysconf(_SC_CLK_TCK)
CLK_TCK == 100
\* procs[i].rss_kb > 500000
RSS_LIMIT_KB == 500000
\* procs[i].cpu_pct > 10.0
CPU_LIMIT_PCT == 10

(* ------------------------------- Bounds ------------------------------- *)
\* First value of the monotonic clock, and how far it may advance before
\* the model stops reading it.
BootTime == 1000
MaxTime == 4100
\* Largest index the selection cursor may reach while the table is empty.
MaxSel == 2

(* ------------------------------ Rationals ----------------------------- *)
RECURSIVE GCD(_, _)
GCD(a, b) == IF b = 0 THEN a ELSE GCD(b, a % b)

Abs(x) == IF x < 0 THEN -x ELSE x

\* n/d in lowest terms, d > 0; a zero denominator is kept as it is.
Rat(n, d) ==
  IF d = 0 THEN <<n, 0>>
  ELSE LET g == GCD(Abs(n), Abs(d))
           s == IF d < 0 THEN -1 ELSE 1
       IN  <<(s * n) \div g, (s * d) \div g>>

RZero == <<0, 1>>
ROne == <<1, 1>>
RLess(x, y) == x[1] * y[2] < y[1] * x[2]
\* x > k for an integer k
RGtInt(x, k) == x[1] > k * x[2]

(* ------------------------------- Strings ------------------------------ *)
\* strstr(hay, needle) != NULL
strstr(hay, needle) ==
  \E i \in 0..(Len(hay) - Len(needle)) :
     SubSeq(hay, i + 1, i + Len(needle)) = needle

ffmpeg == <<"f","f","m","p","e","g">>
chrome == <<"c","h","r","o","m","e">>
bash == <<"b","a","s","h">>
sshd == <<"s","s","h","d">>

critical ==
  <<
     <<"s","y","s","t","e","m","d">>,
     <<"i","n","i","t">>,
     <<"k","e","r","n","e","l">>,
     <<"k","t","h","r","e","a","d">>,
     <<"k","s","o","f","t","i","r","q">>,
     <<"k","w","o","r","k","e","r">>,
     <<"X","o","r","g">>,
     <<"X">>,
     <<"w","a","y","l","a","n","d">>,
     <<"s","w","a","y">>,
     <<"g","n","o","m","e","-","s","h","e","l","l">>,
     <<"k","w","i","n">>,
     <<"m","u","t","t","e","r">>,
     <<"p","l","a","s","m","a","s","h","e","l","l">>,
     <<"x","f","w","m","4">>,
     <<"o","p","e","n","b","o","x">>,
     <<"i","3">>,
     <<"d","w","m">>,
     <<"a","w","e","s","o","m","e">>,
     <<"g","d","m">>,
     <<"s","d","d","m">>,
     <<"l","i","g","h","t","d","m">>,
     <<"l","o","g","i","n">>,
     <<"g","e","t","t","y">>,
     <<"p","u","l","s","e","a","u","d","i","o">>,
     <<"p","i","p","e","w","i","r","e">>,
     <<"w","i","r","e","p","l","u","m","b","e","r">>,
     <<"a","l","s","a">>,
     <<"N","e","t","w","o","r","k","M","a","n","a","g","e","r">>,
     <<"w","p","a","_","s","u","p","p","l","i","c","a","n","t">>,
     <<"d","h","c","l","i","e","n","t">>,
     <<"d","h","c","p","c","d">>,
     <<"d","b","u","s">>,
     <<"d","b","u","s","-","d","a","e","m","o","n">>,
     <<"s","y","s","t","e","m","d","-">>,
     <<"u","d","e","v","d">>,
     <<"u","p","o","w","e","r","d">>,
     <<"p","o","l","k","i","t","d">>,
     <<"r","t","k","i","t">>,
     <<"a","c","c","o","u","n","t","s","-","d","a","e","m","o","n">>,
     <<"u","d","i","s","k","s","d">>,
     <<"b","l","u","e","t","o","o","t","h","d">>,
     <<"c","u","p","s","d">>,
     <<"a","v","a","h","i">>,
     <<"s","s","h">>,
     <<"s","s","h","d">>,
     <<"c","r","o","n">>,
     <<"c","r","o","n","d">>,
     <<"a","t","d">>,
     <<"r","s","y","s","l","o","g","d">>,
     <<"s","y","s","l","o","g">>,
     <<"j","o","u","r","n","a","l","d">>,
     <<"d","o","c","k","e","r","d">>,
     <<"c","o","n","t","a","i","n","e","r","d">>,
     <<"k","u","b","e","l","e","t">>,
     <<"l","i","b","v","i","r","t","d">>,
     <<"v","i","r","t","l","o","g","d">>,
     <<"q","e","m","u">>,
     <<"x","f","c","e","4","-","s","e","s","s","i","o","n">>,
     <<"m","a","t","e","-","s","e","s","s","i","o","n">>,
     <<"c","i","n","n","a","m","o","n","-","s","e","s","s","i","o","n">>,
     <<"l","x","s","e","s","s","i","o","n">>,
     <<"l","x","q","t","-","s","e","s","s","i","o","n">>,
     <<"g","n","o","m","e","-","s","e","s","s","i","o","n">>,
     <<"k","d","e","-","s","e","s","s","i","o","n">>
  >>

is_system_critical(comm) ==
  \E i \in 1..Len(critical) : strstr(comm, critical[i])

(* ------------------------------ Variables ----------------------------- *)
VARIABLES
  procs,                \* PInfo procs[0..nprocs-1], as a sequence
  prev,                 \* scan_processes: static prev[0..prevn-1]
  prev_time_ms,         \* scan_processes: static prev_time_ms
  priority_procs,       \* priority_procs[0..num_priority_procs-1]
  auto_manage_enabled,
  page, proc_sel, sort_mode,
  t_cpu, t_proc,        \* main: the two timers
  clock,                \* the last value now_ms() returned
  pc,                   \* "start" before main runs, "warm" at usleep(), "loop" inside while(1), "done"
  cpu,                  \* CpuSnap: [total, core, ncores]
  cpu_prev,             \* cpu_sample: static pu, pn, ps, pi, piow, pirq, psirq, psteal
  initialized,          \* cpu_sample: static initialized
  NCPU,
  hist_cpu, hpos,
  hist_mem, mem_hpos,
  signals,              \* the kill() and priority calls of the last step, in order
  lastOp,               \* the handler the last step ran
  held,                 \* history: the pids the policy stopped and nobody continued since
  resumed,              \* history: the pids the resume-all command has continued
  scanned,              \* history: what the last scan_processes() found in /proc
  sampled,              \* history: what the last cpu_sample() found in /proc/stat
  ring_log              \* history: per core, the samples push_hist() wrote tick after tick

procVars == <<procs, prev, prev_time_ms>>
policyVars == <<priority_procs, auto_manage_enabled>>
uiVars == <<page, proc_sel, sort_mode>>
cpuVars == <<cpu, cpu_prev, initialized, NCPU, hist_cpu, hpos, sampled, ring_log>>
memVars == <<hist_mem, mem_hpos>>
vars == <<procs, prev, prev_time_ms, priority_procs, auto_manage_enabled,
          page, proc_sel, sort_mode, t_cpu, t_proc, clock, pc,
          cpu, cpu_prev, initialized, NCPU, hist_cpu, hpos,
          hist_mem, mem_hpos, signals, lastOp, held, resumed, scanned,
          sampled, ring_log>>

nprocs == Len(procs)
prevn == Len(prev)
num_priority_procs == Len(priority_procs)

(* --------------------------- Process scanner -------------------------- *)
\* One numeric entry of /proc as the three reads of scan_processes find it:
\* comm_ok, stat_ok, status_ok tell whether read_comm, read_stat, read_status
\* could open and parse their file.
DirEntry(pid, comm_ok, comm, stat_ok, state, ut, st, status_ok, uid, rss_kb) ==
  [pid |-> pid, comm_ok |-> comm_ok, comm |-> comm, stat_ok |-> stat_ok,
   state |-> state, ut |-> ut, st |-> st, nicev |-> 0,
   status_ok |-> status_ok, uid |-> uid, rss_kb |-> rss_kb]

\* read_stat: field 3 of the stat line
state_running(state) == state # "T" /\ state # "Z"

\* dut, dst: each counter's increase, 0 when it went down
tick_delta_unguarded(cur, old) == cur - old
tick_delta(cur, old) == IF cur > old THEN cur - old ELSE 0

\* p->cpu_pct from the two deltas and the time between the scans
cpu_pct_unguarded(dut, dst, time_diff_ms) ==
  Rat((dut + dst) * 1000 * 100, CLK_TCK * time_diff_ms)
cpu_pct_ticks_as_ms(dut, dst, time_diff_ms) ==
  IF time_diff_ms > 0 THEN Rat((dut + dst) * 100, time_diff_ms) ELSE RZero
cpu_pct_of(dut, dst, time_diff_ms) ==
  IF time_diff_ms > 0
    THEN Rat((dut + dst) * 1000 * 100, CLK_TCK * time_diff_ms)
    ELSE RZero

\* index of the first prev[i] with prev[i].pid = pid, 0 when there is none
prev_index(pv, pid) ==
  IF \E i \in 1..Len(pv) : pv[i].pid = pid
    THEN CHOOSE i \in 1..Len(pv) :
           pv[i].pid = pid /\ \A j \in 1..(i - 1) : pv[j].pid # pid
    ELSE 0

\* The record scan_processes builds for an entry whose comm and stat were read.
read_proc(e, pv, time_diff_ms) ==
  LET i == prev_index(pv, e.pid)
      dut == IF i > 0 THEN tick_delta(e.ut, pv[i].ut) ELSE 0
      dst == IF i > 0 THEN tick_delta(e.st, pv[i].st) ELSE 0
  IN  [pid |-> e.pid,
       uid |-> IF e.status_ok THEN e.uid ELSE 0,
       comm |-> e.comm,
       ut |-> e.ut, st |-> e.st,
       cpu_pct |-> IF i > 0 THEN cpu_pct_of(dut, dst, time_diff_ms) ELSE RZero,
       rss_kb |-> IF e.status_ok THEN e.rss_kb ELSE 0,
       nicev |-> e.nicev,
       running |-> state_running(e.state),
       suspended_by_manager |-> IF i > 0 THEN pv[i].suspended_by_manager ELSE FALSE]

\* the while ((e = readdir(d)) && nprocs < MAX_PROCS) loop
RECURSIVE scan_entries(_, _, _, _)
scan_entries(dir, acc, pv, time_diff_ms) ==
  IF dir = <<>> \/ Len(acc) >= MAX_PROCS THEN acc
  ELSE LET e == Head(dir)
       IN  IF ~e.comm_ok \/ ~e.stat_ok
             THEN scan_entries(Tail(dir), acc, pv, time_diff_ms)
             ELSE scan_entries(Tail(dir), Append(acc, read_proc(e, pv, time_diff_ms)),
                               pv, time_diff_ms)

scan_processes_merge(dir_ok, dir, curr_time_ms, pv, pv_time_ms) ==
  LET time_diff_ms == IF pv_time_ms > 0 THEN curr_time_ms - pv_time_ms ELSE 1500
      table == scan_entries(dir, <<>>, pv, time_diff_ms)
      gone == SelectSeq(pv, LAMBDA p : \A j \in 1..Len(table) : table[j].pid # p.pid)
  IN  IF ~dir_ok THEN <<(<<>>), pv, pv_time_ms>>
      ELSE <<table, table \o gone, curr_time_ms>>
\* scan_processes() at time curr_time_ms; dir_ok is opendir("/proc") != NULL.
\* The result is the new <<procs, prev, prev_time_ms>>.
scan_processes(dir_ok, dir, curr_time_ms, pv, pv_time_ms) ==
  LET time_diff_ms == IF pv_time_ms > 0 THEN curr_time_ms - pv_time_ms ELSE 1500
      table == scan_entries(dir, <<>>, pv, time_diff_ms)
  IN  IF ~dir_ok THEN <<(<<>>), pv, pv_time_ms>>
      ELSE <<table, table, curr_time_ms>>

(* --------------------------- Resource policy -------------------------- *)
is_priority_proc(comm, plist) ==
  \E i \in 1..Len(plist) : strstr(comm, plist[i])

\* manage_resources, first loop
priority_running(tbl, plist) ==
  \E i \in 1..Len(tbl) : is_priority_proc(tbl[i].comm, plist) /\ tbl[i].running

\* manage_resources, second loop: the entries that reach kill(pid, SIGSTOP)
stop_candidate_any_uid(p, plist) ==
  /\ ~is_priority_proc(p.comm, plist)
  /\ ~is_system_critical(p.comm)
  /\ (RGtInt(p.cpu_pct, CPU_LIMIT_PCT) \/ p.rss_kb > RSS_LIMIT_KB)
  /\ p.running
  /\ ~p.suspended_by_manager
stop_candidate_cpu_only(p, plist) ==
  /\ ~is_priority_proc(p.comm, plist)
  /\ ~is_system_critical(p.comm)
  /\ p.uid # 0
  /\ RGtInt(p.cpu_pct, CPU_LIMIT_PCT)
  /\ p.running
  /\ ~p.suspended_by_manager
stop_candidate(p, plist) ==
  /\ ~is_priority_proc(p.comm, plist)
  /\ ~is_system_critical(p.comm)
  /\ p.uid # 0
  /\ (RGtInt(p.cpu_pct, CPU_LIMIT_PCT) \/ p.rss_kb > RSS_LIMIT_KB)
  /\ p.running
  /\ ~p.suspended_by_manager

Signal(pid, sig, ok) == [pid |-> pid, sig |-> sig, ok |-> ok]

\* the pids a sequence of signals reached with sig, delivered or attempted
delivered(sigs, sig) == { sigs[k].pid : k \in { j \in 1..Len(sigs) : sigs[j].sig = sig /\ sigs[j].ok } }
attempted(sigs, sig) == { sigs[k].pid : k \in { j \in 1..Len(sigs) : sigs[j].sig = sig } }

\* the signals a pass sends to the records hit, in table order
signals_of(hit, sig, kill_ok) ==
  [i \in 1..Len(hit) |-> Signal(hit[i].pid, sig, hit[i].pid \in kill_ok)]

manage_resources_no_priority_check(tbl, plist, enabled, kill_ok) ==
  IF ~enabled THEN <<tbl, <<>> >>
  ELSE << [i \in 1..Len(tbl) |->
            IF stop_candidate(tbl[i], plist) /\ tbl[i].pid \in kill_ok
              THEN [tbl[i] EXCEPT !.suspended_by_manager = TRUE]
              ELSE tbl[i]],
          signals_of(SelectSeq(tbl, LAMBDA p : stop_candidate(p, plist)),
                     "SIGSTOP", kill_ok) >>
manage_resources_skip_resumed(tbl, plist, enabled, kill_ok) ==
  IF ~enabled \/ ~priority_running(tbl, plist) THEN <<tbl, <<>> >>
  ELSE << [i \in 1..Len(tbl) |->
            IF stop_candidate(tbl[i], plist) /\ tbl[i].pid \notin resumed
                 /\ tbl[i].pid \in kill_ok
              THEN [tbl[i] EXCEPT !.suspended_by_manager = TRUE]
              ELSE tbl[i]],
          signals_of(SelectSeq(tbl, LAMBDA p : stop_candidate(p, plist)
                                                 /\ p.pid \notin resumed),
                     "SIGSTOP", kill_ok) >>
\* manage_resources(): <<procs after the pass, signals sent>>; kill_ok is the
\* set of pids for which kill() returns 0.
manage_resources(tbl, plist, enabled, kill_ok) ==
  IF ~enabled \/ ~priority_running(tbl, plist) THEN <<tbl, <<>> >>
  ELSE << [i \in 1..Len(tbl) |->
            IF stop_candidate(tbl[i], plist) /\ tbl[i].pid \in kill_ok
              THEN [tbl[i] EXCEPT !.suspended_by_manager = TRUE]
              ELSE tbl[i]],
          signals_of(SelectSeq(tbl, LAMBDA p : stop_candidate(p, plist)),
                     "SIGSTOP", kill_ok) >>

resume_suspended_no_signal(tbl, kill_ok) ==
  << [i \in 1..Len(tbl) |-> [tbl[i] EXCEPT !.suspended_by_manager = FALSE]], <<>> >>
\* resume_suspended(): <<procs after the pass, signals sent>>
resume_suspended_keep_flag(tbl, kill_ok) ==
  << tbl,
     signals_of(SelectSeq(tbl, LAMBDA p : p.suspended_by_manager), "SIGCONT", kill_ok) >>
resume_suspended(tbl, kill_ok) ==
  << [i \in 1..Len(tbl) |-> [tbl[i] EXCEPT !.suspended_by_manager = FALSE]],
     signals_of(SelectSeq(tbl, LAMBDA p : p.suspended_by_manager), "SIGCONT", kill_ok) >>

(* ------------------------------- Sorting ------------------------------ *)
\* cmp_cpu(x, y) < 0, cmp_mem(x, y) < 0: x sorts before y
cmp_cpu_before(x, y) ==
  IF RLess(x.cpu_pct, y.cpu_pct) THEN FALSE
  ELSE IF RLess(y.cpu_pct, x.cpu_pct) THEN TRUE
  ELSE x.pid < y.pid
cmp_mem_before(x, y) ==
  IF y.rss_kb > x.rss_kb THEN FALSE
  ELSE IF y.rss_kb < x.rss_kb THEN TRUE
  ELSE x.pid < y.pid

\* the comparator draw_procs picks from sort_mode
cmp_before(x, y, mode) ==
  IF mode = 0 THEN cmp_cpu_before(x, y) ELSE cmp_mem_before(x, y)

RECURSIVE insert_sorted(_, _, _)
insert_sorted(x, s, mode) ==
  IF s = <<>> THEN <<x>>
  ELSE IF cmp_before(x, Head(s), mode) THEN <<x>> \o s
  ELSE <<Head(s)>> \o insert_sorted(x, Tail(s), mode)

\* qsort(procs, nprocs, sizeof(PInfo), cmp): the order is total, pids differ
RECURSIVE qsort(_, _)
qsort(s, mode) ==
  IF s = <<>> THEN <<>>
  ELSE insert_sorted(Head(s), qsort(Tail(s), mode), mode)

(* ------------------------ CPU sampling + history ---------------------- *)
\* unsigned long long and unsigned long arithmetic is modulo 2^64 in the
\* source; the model keeps the wrap-around with a narrower word.
ULL_MOD == 4096
\* How many entries of the per-core arrays (MAX_CORES in the source) the
\* model keeps: cpu.core[0..CoreSlots-1], pu[0..CoreSlots] and so on.
CoreSlots == 2

USub(a, b) == (a - b + ULL_MOD) % ULL_MOD
UAdd(a, b) == (a + b) % ULL_MOD

\* u + n + s + idle + iow + irq + sirq + steal
tuple_total(v) ==
  UAdd(UAdd(UAdd(UAdd(UAdd(UAdd(UAdd(v[1], v[2]), v[3]), v[4]), v[5]), v[6]), v[7]), v[8])

ZeroTuple == <<0, 0, 0, 0, 0, 0, 0, 0>>

\* /proc/stat is a stream of whitespace-separated tokens: a number
\* [num |-> TRUE, val], or a word [num |-> FALSE, cpu], cpu telling whether
\* it starts with "cpu".
NumTok(v) == [num |-> TRUE, cpu |-> FALSE, val |-> v]
WordTok(is_cpu) == [num |-> FALSE, cpu |-> is_cpu, val |-> 0]

\* how many of the first k tokens of toks are numbers, counted from the front
RECURSIVE num_prefix(_, _)
num_prefix(toks, k) ==
  IF k = 0 \/ toks = <<>> \/ ~Head(toks).num THEN 0
  ELSE 1 + num_prefix(Tail(toks), k - 1)

\* fscanf(f, "%15s %llu %llu %llu %llu %llu %llu %llu %llu", id, &u, ...):
\* items, whether id starts with "cpu", the eight values and the rest of
\* the stream.
fscanf_cpu_line(toks) ==
  IF toks = <<>> THEN [items |-> -1, cpu |-> FALSE, v |-> ZeroTuple, rest |-> <<>>]
  ELSE LET k == num_prefix(Tail(toks), 8)
       IN  [items |-> 1 + k,
            cpu |-> Head(toks).cpu,
            v |-> IF k = 8 THEN [i \in 1..8 |-> toks[i + 1].val] ELSE ZeroTuple,
            rest |-> SubSeq(toks, k + 2, Len(toks))]

\* double use = (dt > 0) ? (1.0 - (double)di / (double)dt) : 0.0
cpu_use(v, pv) ==
  LET dt == USub(tuple_total(v), tuple_total(pv))
      di == USub(v[4], pv[4])
  IN  IF dt > 0 THEN Rat(dt - di, dt) ELSE RZero

\* if (usage < 0.0) usage = 0.0; if (usage > 1.0) usage = 1.0;
clamp01_none(x) == x
clamp01(x) ==
  IF RLess(x, RZero) THEN RZero
  ELSE IF RLess(ROne, x) THEN ROne
  ELSE x

\* push_hist(): <<hist_cpu, hpos>> after the call
push_hist(c, hist, pos) ==
  << [i \in DOMAIN hist |->
        IF i < c.ncores /\ i < MAX_CORES
          THEN [hist[i] EXCEPT ![pos] = clamp01(c.core[i])]
          ELSE hist[i]],
     (pos + 1) % HIST_W >>

\* the while (idx <= MAX_CORES) loop of cpu_sample: [cpu, cpu_prev, idx]
RECURSIVE cpu_lines(_, _, _, _, _)
cpu_lines(toks, idx, c, pv, init) ==
  IF idx > MAX_CORES THEN [cpu |-> c, cpu_prev |-> pv, idx |-> idx]
  ELSE LET r == fscanf_cpu_line(toks)
       IN  IF r.items < 9 \/ ~r.cpu
             THEN [cpu |-> c, cpu_prev |-> pv, idx |-> idx]
             ELSE LET use == IF init THEN cpu_use(r.v, pv[idx]) ELSE RZero
                      c2 == IF idx = 0 THEN [c EXCEPT !.total = use]
                            ELSE IF idx - 1 < MAX_CORES
                              THEN [c EXCEPT !.core[idx - 1] = use]
                              ELSE c
                  IN  cpu_lines(r.rest, idx + 1, c2, [pv EXCEPT ![idx] = r.v], init)

cpu_sample_no_first_guard(stat_ok, toks, st, ncpu) ==
  IF ~stat_ok THEN [st EXCEPT !.idx = 0]
  ELSE LET r == cpu_lines(toks, 0, st.cpu, st.cpu_prev, TRUE)
           n1 == r.idx - 1
           n2 == IF n1 <= 0 THEN 1 ELSE n1
           n3 == IF n2 > ncpu THEN ncpu ELSE n2
           c == [r.cpu EXCEPT !.ncores = n3]
           h == push_hist(c, st.hist_cpu, st.hpos)
       IN  [cpu |-> c, cpu_prev |-> r.cpu_prev, initialized |-> TRUE,
            hist_cpu |-> h[1], hpos |-> h[2], idx |-> r.idx]

\* cpu_sample(): the sampler state [cpu, cpu_prev, initialized, hist_cpu, hpos]
\* after the call, and in idx how many lines its loop took; stat_ok is fopen("/proc/stat") != NULL, toks its contents.
cpu_sample(stat_ok, toks, st, ncpu) ==
  IF ~stat_ok THEN [st EXCEPT !.idx = 0]
  ELSE LET r == cpu_lines(toks, 0, st.cpu, st.cpu_prev, st.initialized)
           n1 == r.idx - 1
           n2 == IF n1 <= 0 THEN 1 ELSE n1
           n3 == IF n2 > ncpu THEN ncpu ELSE n2
           c == [r.cpu EXCEPT !.ncores = n3]
           h == push_hist(c, st.hist_cpu, st.hpos)
       IN  [cpu |-> c, cpu_prev |-> r.cpu_prev, initialized |-> TRUE,
            hist_cpu |-> h[1], hpos |-> h[2], idx |-> r.idx]

\* push_mem_hist(): <<hist_mem, mem_hpos>> after the call; mem_ok is
\* fopen("/proc/meminfo") != NULL, mt and ma are MemTotal and MemAvailable.
push_mem_hist(mem_ok, mt_read, ma_read, hist, pos) ==
  LET mt == IF mem_ok THEN mt_read ELSE 0
      ma == IF mem_ok THEN ma_read ELSE 0
      used_pct == IF mt # 0 THEN Rat(USub(mt, ma), mt) ELSE RZero
  IN  << [hist EXCEPT ![pos] = used_pct], (pos + 1) % HIST_W >>

\* draw_wave(): the slot read for column i of a graph gw columns wide
wave_index(pos, gw, i) == (pos + HIST_W - gw + i) % HIST_W

(* ------------------------------- Inputs ------------------------------- *)
\* usleep(100000) between the two start-up samples
STARTUP_SLEEP_MS == 100

Opt(S) == {<<>>} \cup {<<e>> : e \in S}

\* pid 1: the media encoder of an ordinary user, sleeping or stopped
Pid1Entries ==
  { DirEntry(1, TRUE, ffmpeg, TRUE, state, 0, 0, TRUE, 1000, 1000) :
      state \in {"S", "T"} }
\* pid 2: a browser of an ordinary user, running or stopped, with a moving
\* utime, or grown past the memory limit
Pid2Entries ==
  { DirEntry(2, TRUE, chrome, TRUE, "R", ut, 0, TRUE, 1000, 1000) : ut \in {0, 20} }
  \cup { DirEntry(2, TRUE, chrome, TRUE, "T", 20, 0, TRUE, 1000, 1000),
         DirEntry(2, TRUE, chrome, TRUE, "R", 0, 0, TRUE, 1000, 600000) }
\* pid 3: a large root shell, or a large ssh daemon of an ordinary user
Pid3Entries ==
  { DirEntry(3, TRUE, bash, TRUE, "R", 0, 0, TRUE, 0, 600000),
    DirEntry(3, TRUE, sshd, TRUE, "R", 0, 0, TRUE, 1000, 600000) }

\* what readdir("/proc") lists, in pid order
ProcDirs ==
  { <<a>> \o b \o <<c>> : a \in Pid1Entries, b \in Opt(Pid2Entries), c \in Pid3Entries }
\* one scan's view of /proc: dir_ok is opendir("/proc") != NULL
DirRead(dir_ok, dir) == [dir_ok |-> dir_ok, dir |-> dir]
DirReads == { DirRead(TRUE, d) : d \in ProcDirs }
DirReadsQuiet == { DirRead(TRUE, <<>>) }

\* A second view of /proc for the scanner alone: one process whose counters
\* move both ways (a pid reused by a younger process), which is a zombie, or
\* which vanishes before its comm, stat or status file is read.
ScanPid1Entries ==
  { DirEntry(1, TRUE, chrome, TRUE, state, ut, st, TRUE, 1000, 1000) :
      state \in {"R", "Z"}, ut \in {0, 20}, st \in {0, 20} }
  \cup { DirEntry(1, FALSE, <<>>, FALSE, "R", 0, 0, FALSE, 0, 0),
         DirEntry(1, TRUE, chrome, FALSE, "R", 0, 0, FALSE, 0, 0),
         DirEntry(1, TRUE, chrome, TRUE, "R", 20, 20, FALSE, 1000, 1000) }
\* and a shell whose counters read utime 1000, stime 200 or utime 1050, stime 230
ScanPid2Entries ==
  { DirEntry(2, TRUE, bash, TRUE, "S", c[1], c[2], TRUE, 1000, 1000) :
      c \in { <<1000, 200>>, <<1050, 230>> } }
ScanDirs ==
  { a \o b : a \in Opt(ScanPid1Entries), b \in Opt(ScanPid2Entries) }
ScanDirReads == { DirRead(FALSE, <<>>) } \cup { DirRead(TRUE, d) : d \in ScanDirs }

\* A third view of /proc for the commands of the process page: a browser of
\* an ordinary user, running, stopped or a zombie, and a shell of root.
CmdPid1Entries ==
  { DirEntry(1, TRUE, chrome, TRUE, state, 0, 0, TRUE, 1000, 1000) :
      state \in {"R", "T", "Z"} }
CmdPid2Entries == { DirEntry(2, TRUE, bash, TRUE, "S", 0, 0, TRUE, 0, 1000) }
CmdDirs == { <<a, b>> : a \in CmdPid1Entries, b \in CmdPid2Entries }
CmdDirReads == { DirRead(TRUE, d) : d \in CmdDirs }

\* the pids kill() succeeds for
KillOkSets == { {1, 2, 3}, {1, 3} }

CpuLine(is_cpu, v, extra) ==
  <<WordTok(is_cpu)>> \o [i \in 1..8 |-> NumTok(v[i])] \o [i \in 1..extra |-> NumTok(0)]
Ticks(u, idle) == <<u, 0, 0, idle, 0, 0, 0, 0>>
\* readings in which user time or idle time may be lower than in the last one
CpuTuples == { Ticks(2, 0), Ticks(0, 3), Ticks(2, 3) }
\* /proc/stat: the aggregate line, per-core lines and the "intr" line, with
\* eight counters a line or with the two guest counters after them
\* the aggregate line of two successive ticks: cpu 100 0 100 800 0 0 0 0 and
\* cpu 150 0 120 850 0 0 0 0
BusyTuples == { <<100, 0, 100, 800, 0, 0, 0, 0>>, <<150, 0, 120, 850, 0, 0, 0, 0>> }
\* one line of /proc/stat: whether its label starts with "cpu", its first
\* eight counters and how many more columns follow them
StatLine(is_cpu, v, extra) == [cpu |-> is_cpu, v |-> v, extra |-> extra]
IntrLine == StatLine(FALSE, ZeroTuple, 0)
\* the file as the stream of tokens fscanf() reads
RECURSIVE stat_toks(_)
stat_toks(lines) ==
  IF lines = <<>> THEN <<>>
  ELSE CpuLine(Head(lines).cpu, Head(lines).v, Head(lines).extra) \o stat_toks(Tail(lines))
StatFiles ==
  { <<StatLine(TRUE, a, 0), IntrLine>> : a \in CpuTuples \cup BusyTuples }
  \cup { <<StatLine(TRUE, a, 0), StatLine(TRUE, b, 0), IntrLine>> :
           a \in CpuTuples, b \in CpuTuples }
  \cup { <<StatLine(TRUE, Ticks(2, 3), 2), StatLine(TRUE, b, 2), IntrLine>> :
           b \in { Ticks(0, 3), Ticks(2, 3) } }
\* <<MemTotal, MemAvailable>> of /proc/meminfo
MemValues == { <<0, 0>>, <<4, 1>>, <<4, 5>> }
\* one sampling tick's view of /proc/stat and /proc/meminfo: stat_ok and
\* mem_ok are the two fopen() results
CpuRead(stat_ok, lines, mem_ok, m) ==
  [stat_ok |-> stat_ok, lines |-> lines, mem_ok |-> mem_ok, mt |-> m[1], ma |-> m[2]]
CpuReads ==
  { CpuRead(TRUE, t, TRUE, <<4, 1>>) : t \in StatFiles }
  \cup { CpuRead(FALSE, <<>>, TRUE, <<4, 1>>) }
CpuReadsQuiet == { CpuRead(FALSE, <<>>, FALSE, <<0, 0>>) }
\* ticks that see /proc/meminfo alone, readable or not
MemReads == { CpuRead(FALSE, <<>>, mem_ok, m) : mem_ok \in BOOLEAN, m \in MemValues }
\* sysconf(_SC_NPROCESSORS_ONLN)
NcpuReads == 0..CoreSlots
NcpuReadsQuiet == { 1 }

\* A fourth view, for the loop as a whole: /proc always lists the media
\* encoder and a browser of an ordinary user over the memory limit, and
\* /proc/stat is readable.
LoopDirReads ==
  { DirRead(TRUE, << DirEntry(1, TRUE, ffmpeg, TRUE, "S", 0, 0, TRUE, 1000, 1000),
                     DirEntry(2, TRUE, chrome, TRUE, "R", 0, 0, TRUE, 1000, 600000) >>) }
LoopCpuReads ==
  { CpuRead(TRUE, <<StatLine(TRUE, Ticks(2, 3), 0), IntrLine>>, TRUE, <<4, 1>>) }
\* one iteration sleeps FRAME_MS in napms()
LoopSteps == { FRAME_MS }
LoopKeySteps == { FRAME_MS }
LiveKeySteps == { 0 }

\* what successive now_ms() calls differ by
ProcSteps == { 0, PROC_MS }
PolicySteps == { PROC_MS }
CpuSteps == { 3 * CPU_MS }

(* ------------------------------- Actions ------------------------------ *)
\* What a call of scan_processes() at curr_time_ms met, kept as history: its
\* view of /proc, the time_diff_ms it computed, the pids it found in
\* prev[] with utime or stime below the value prev[] holds, the pids that
\* prev[] held and it did not read (those of the last call that opened
\* /proc), and the pids it read that prev[] lacks and the call before had
\* dropped.
scan_note(dr, curr_time_ms, pv, pv_time_ms, old) ==
  LET read == IF dr.dir_ok
                THEN { k \in 1..Len(dr.dir) : dr.dir[k].comm_ok /\ dr.dir[k].stat_ok }
                ELSE {}
      known == { k \in read : prev_index(pv, dr.dir[k].pid) > 0 }
  IN  [dir_ok |-> dr.dir_ok, dir |-> dr.dir,
       elapsed |-> IF pv_time_ms > 0 THEN curr_time_ms - pv_time_ms ELSE 1500,
       fell |-> { dr.dir[k].pid : k \in
                    { k \in known :
                        LET i == prev_index(pv, dr.dir[k].pid)
                        IN  dr.dir[k].ut < pv[i].ut \/ dr.dir[k].st < pv[i].st } },
       back |-> { dr.dir[k].pid : k \in read \ known } \cap old.dropped,
       dropped |-> IF dr.dir_ok
                     THEN { pv[i].pid : i \in 1..Len(pv) } \ { dr.dir[k].pid : k \in read }
                     ELSE old.dropped]

SamplerState ==
  [cpu |-> cpu, cpu_prev |-> cpu_prev, initialized |-> initialized,
   hist_cpu |-> hist_cpu, hpos |-> hpos, idx |-> 0]

\* What a call of cpu_sample() met, kept as history: whether /proc/stat
\* opened, its lines, and how many of them the loop took.
sample_note(r, s) == [stat_ok |-> r.stat_ok, lines |-> r.lines, idx |-> s.idx]

\* The samples a call of push_hist() wrote, appended to each core's log; the
\* log keeps the last HIST_W samples and starts again for a core the call
\* did not write.
log_push(log, r, s, pos) ==
  IF ~r.stat_ok THEN log
  ELSE [i \in DOMAIN log |->
          IF i < s.cpu.ncores /\ i < MAX_CORES
            THEN LET l == Append(log[i], s.hist_cpu[i][pos])
                 IN  IF Len(l) > HIST_W THEN Tail(l) ELSE l
            ELSE <<>>]

Init ==
  /\ procs = <<>> /\ prev = <<>> /\ prev_time_ms = 0
  /\ priority_procs = <<>> /\ auto_manage_enabled = FALSE
  /\ page = "MAIN" /\ proc_sel = 0 /\ sort_mode = 0
  /\ t_cpu = 0 /\ t_proc = 0
  /\ clock = BootTime
  /\ pc = "start"
  /\ cpu = [total |-> RZero, core |-> [i \in 0..(CoreSlots - 1) |-> RZero], ncores |-> 0]
  /\ cpu_prev = [i \in 0..CoreSlots |-> ZeroTuple]
  /\ initialized = FALSE
  /\ NCPU = 1
  /\ hist_cpu = [i \in 0..(CoreSlots - 1) |-> [j \in 0..(HIST_W - 1) |-> RZero]]
  /\ hpos = 0
  /\ hist_mem = [j \in 0..(HIST_W - 1) |-> RZero]
  /\ mem_hpos = 0
  /\ signals = <<>>
  /\ lastOp = "init"
  /\ held = {}
  /\ resumed = {}
  /\ scanned = [dir_ok |-> TRUE, dir |-> <<>>, elapsed |-> 0, fell |-> {},
                back |-> {}, dropped |-> {}]
  /\ sampled = [stat_ok |-> FALSE, lines |-> <<>>, idx |-> 0]
  /\ ring_log = [i \in 0..(CoreSlots - 1) |-> <<>>]

\* main() up to usleep(): NCPU, the two timers, the first CPU and memory
\* sample.
StartupSample(Ncpus, Cpus) ==
  /\ pc = "start"
  /\ \E ncpu_read \in Ncpus, r \in Cpus :
       LET ncpu == IF ncpu_read <= 0 THEN 1 ELSE ncpu_read
           h1 == push_mem_hist(r.mem_ok, r.mt, r.ma, hist_mem, mem_hpos)
       IN  \E s1 \in {cpu_sample(r.stat_ok, stat_toks(r.lines), SamplerState, ncpu)} :
             /\ NCPU' = ncpu
             /\ cpu' = s1.cpu /\ cpu_prev' = s1.cpu_prev /\ initialized' = s1.initialized
             /\ hist_cpu' = s1.hist_cpu /\ hpos' = s1.hpos
             /\ sampled' = sample_note(r, s1)
             /\ ring_log' = log_push(ring_log, r, s1, hpos)
             /\ hist_mem' = h1[1] /\ mem_hpos' = h1[2]
  /\ t_cpu' = clock /\ t_proc' = clock
  /\ pc' = "warm"
  /\ signals' = <<>>
  /\ lastOp' = "startup_sample"
  /\ UNCHANGED <<procVars, policyVars, uiVars, clock, held, resumed, scanned>>

\* main() from usleep() to the loop: the second CPU and memory sample
\* 100 ms after the first, then the first process scan.
Startup(Cpus, Dirs) ==
  /\ pc = "warm"
  /\ \E r \in Cpus, dr \in Dirs :
       LET h1 == push_mem_hist(r.mem_ok, r.mt, r.ma, hist_mem, mem_hpos)
           sc == scan_processes(dr.dir_ok, dr.dir, clock + STARTUP_SLEEP_MS,
                                prev, prev_time_ms)
       IN  \E s1 \in {cpu_sample(r.stat_ok, stat_toks(r.lines), SamplerState, NCPU)} :
             /\ cpu' = s1.cpu /\ cpu_prev' = s1.cpu_prev /\ initialized' = s1.initialized
             /\ hist_cpu' = s1.hist_cpu /\ hpos' = s1.hpos
             /\ sampled' = sample_note(r, s1)
             /\ ring_log' = log_push(ring_log, r, s1, hpos)
             /\ hist_mem' = h1[1] /\ mem_hpos' = h1[2]
             /\ procs' = sc[1] /\ prev' = sc[2] /\ prev_time_ms' = sc[3]
             /\ scanned' = scan_note(dr, clock + STARTUP_SLEEP_MS, prev, prev_time_ms, scanned)
  /\ clock' = clock + STARTUP_SLEEP_MS
  /\ pc' = "loop"
  /\ signals' = <<>>
  /\ lastOp' = "startup"
  /\ UNCHANGED <<policyVars, uiVars, NCPU, t_cpu, t_proc, held, resumed>>

\* now_ms() returns the last value plus d (CLOCK_MONOTONIC); the model
\* stops reading the clock at MaxTime.
now_ms(d) == clock + d

\* main: if (t - t_cpu >= CPU_MS) { cpu_sample(); push_mem_hist(); t_cpu = t; }
TimerCpu(Steps, Cpus) ==
  /\ pc = "loop"
  /\ \E d \in Steps :
       /\ now_ms(d) <= MaxTime
       /\ now_ms(d) - t_cpu >= CPU_MS
       /\ t_cpu' = now_ms(d)
       /\ clock' = now_ms(d)
  /\ \E r \in Cpus :
       LET h1 == push_mem_hist(r.mem_ok, r.mt, r.ma, hist_mem, mem_hpos)
       IN  \E s1 \in {cpu_sample(r.stat_ok, stat_toks(r.lines), SamplerState, NCPU)} :
             /\ cpu' = s1.cpu /\ cpu_prev' = s1.cpu_prev /\ initialized' = s1.initialized
             /\ hist_cpu' = s1.hist_cpu /\ hpos' = s1.hpos
             /\ sampled' = sample_note(r, s1)
             /\ ring_log' = log_push(ring_log, r, s1, hpos)
             /\ hist_mem' = h1[1] /\ mem_hpos' = h1[2]
  /\ signals' = <<>>
  /\ lastOp' = "timer_cpu"
  /\ UNCHANGED <<procVars, policyVars, uiVars, NCPU, t_proc, pc, held, resumed, scanned>>

ScanPages == {"PROCS", "MAIN", "RESOURCE_MGR"}

\* main: if (t - t_proc >= PROC_MS) on a page that shows processes:
\* scan_processes(), then manage_resources() when auto-management is on
TimerProc(Steps, Dirs) ==
  /\ pc = "loop"
  /\ page \in ScanPages
  /\ \E d \in Steps :
       /\ now_ms(d) <= MaxTime
       /\ now_ms(d) - t_proc >= PROC_MS
       /\ t_proc' = now_ms(d)
       /\ clock' = now_ms(d)
       /\ \E dr \in Dirs :
            \E sc \in {scan_processes(dr.dir_ok, dr.dir, now_ms(d), prev, prev_time_ms)} :
              /\ prev' = sc[2] /\ prev_time_ms' = sc[3]
              /\ scanned' = scan_note(dr, now_ms(d), prev, prev_time_ms, scanned)
              /\ IF auto_manage_enabled
                   THEN \E kill_ok \in KillOkSets :
                          \E mg \in {manage_resources(sc[1], priority_procs,
                                                      auto_manage_enabled, kill_ok)} :
                            procs' = mg[1] /\ signals' = mg[2]
                   ELSE procs' = sc[1] /\ signals' = <<>>
  /\ held' = held \cup delivered(signals', "SIGSTOP")
  /\ resumed' = resumed
  /\ lastOp' = "timer_proc"
  /\ UNCHANGED <<policyVars, uiVars, cpuVars, memVars, t_cpu, pc>>

\* main: the same timer on a page that shows no processes
TimerProcSkip(Steps) ==
  /\ pc = "loop"
  /\ page \notin ScanPages
  /\ \E d \in Steps :
       /\ now_ms(d) <= MaxTime
       /\ now_ms(d) - t_proc >= PROC_MS
       /\ t_proc' = now_ms(d)
       /\ clock' = now_ms(d)
  /\ signals' = <<>>
  /\ held' = held
  /\ resumed' = resumed
  /\ scanned' = scanned
  /\ lastOp' = "timer_skip"
  /\ UNCHANGED <<procVars, policyVars, uiVars, cpuVars, memVars, t_cpu, pc>>

\* main, lines 1626-1643 as one piece: a loop iteration reads the clock once
\* and runs the CPU timer block and the process timer block, each when its
\* own time has passed. lastOp tells which blocks ran.
LoopTimers(Steps, Cpus, Dirs) ==
  /\ pc = "loop"
  /\ \E d \in Steps :
       LET t == now_ms(d)
           cpu_due == t - t_cpu >= CPU_MS
           proc_due == t - t_proc >= PROC_MS
           scans == proc_due /\ page \in ScanPages
       IN  /\ t <= MaxTime
           /\ clock' = t
           /\ IF cpu_due
                THEN /\ t_cpu' = t
                     /\ \E r \in Cpus :
                          LET h1 == push_mem_hist(r.mem_ok, r.mt, r.ma, hist_mem, mem_hpos)
                          IN  \E s1 \in {cpu_sample(r.stat_ok, stat_toks(r.lines),
                                                    SamplerState, NCPU)} :
                                /\ cpu' = s1.cpu /\ cpu_prev' = s1.cpu_prev
                                /\ initialized' = s1.initialized
                                /\ hist_cpu' = s1.hist_cpu /\ hpos' = s1.hpos
                                /\ sampled' = sample_note(r, s1)
                                /\ ring_log' = log_push(ring_log, r, s1, hpos)
                                /\ hist_mem' = h1[1] /\ mem_hpos' = h1[2]
                ELSE UNCHANGED <<t_cpu, cpu, cpu_prev, initialized, hist_cpu, hpos,
                                 sampled, ring_log, memVars>>
           /\ t_proc' = (IF proc_due THEN t ELSE t_proc)
           /\ IF scans
                THEN \E dr \in Dirs :
                       \E sc \in {scan_processes(dr.dir_ok, dr.dir, t, prev, prev_time_ms)} :
                         /\ prev' = sc[2] /\ prev_time_ms' = sc[3]
                         /\ scanned' = scan_note(dr, t, prev, prev_time_ms, scanned)
                         /\ IF auto_manage_enabled
                              THEN \E kill_ok \in KillOkSets :
                                     \E mg \in {manage_resources(sc[1], priority_procs,
                                                                 auto_manage_enabled,
                                                                 kill_ok)} :
                                       procs' = mg[1] /\ signals' = mg[2]
                              ELSE procs' = sc[1] /\ signals' = <<>>
                ELSE /\ UNCHANGED <<procVars, scanned>>
                     /\ signals' = <<>>
           /\ lastOp' = (IF cpu_due /\ scans THEN "timer_both"
                         ELSE IF cpu_due /\ proc_due THEN "timer_cpu_skip"
                         ELSE IF cpu_due THEN "timer_cpu"
                         ELSE IF scans THEN "timer_proc"
                         ELSE IF proc_due THEN "timer_skip"
                         ELSE "loop_idle")
  /\ held' = held \cup delivered(signals', "SIGSTOP")
  /\ resumed' = resumed
  /\ UNCHANGED <<policyVars, uiVars, NCPU, pc>>

\* draw_procs(): the table is sorted in place and the cursor clamped
drawn_procs == IF nprocs > 0 THEN qsort(procs, sort_mode) ELSE procs
drawn_sel ==
  IF proc_sel < 0 THEN 0
  ELSE IF proc_sel >= nprocs /\ nprocs > 0 THEN nprocs - 1
  ELSE proc_sel

\* an iteration on the process page in which no key is read
DrawProcs ==
  /\ pc = "loop"
  /\ page = "PROCS"
  /\ procs' = drawn_procs
  /\ proc_sel' = drawn_sel
  /\ signals' = <<>>
  /\ held' = held
  /\ resumed' = resumed
  /\ scanned' = scanned
  /\ lastOp' = "draw_procs"
  /\ UNCHANGED <<prev, prev_time_ms, policyVars, page, sort_mode, cpuVars, memVars,
                 t_cpu, t_proc, clock, pc>>

(* ------------------------------ Key handlers -------------------------- *)
\* A key is read after the page was drawn in the same iteration, so a
\* handler of the process page starts from the table draw_procs() sorted.
Quiet(op) ==
  signals' = <<>> /\ lastOp' = op /\ held' = held /\ resumed' = resumed /\ scanned' = scanned

\* 'q', 'Q', ESC away from the main page: back to it
KeyBack ==
  /\ pc = "loop"
  /\ page # "MAIN"
  /\ page' = "MAIN"
  /\ procs' = (IF page = "PROCS" THEN drawn_procs ELSE procs)
  /\ proc_sel' = (IF page = "PROCS" THEN drawn_sel ELSE proc_sel)
  /\ Quiet("key_back")
  /\ UNCHANGED <<prev, prev_time_ms, policyVars, sort_mode, cpuVars, memVars,
                 t_cpu, t_proc, clock, pc>>

\* 'q', 'Q', ESC on the main page: out of the loop
KeyQuit ==
  /\ pc = "loop"
  /\ page = "MAIN"
  /\ pc' = "done"
  /\ Quiet("key_quit")
  /\ UNCHANGED <<procVars, policyVars, uiVars, cpuVars, memVars, t_cpu, t_proc, clock>>

MenuPage(m) ==
  CASE m = 0 -> "GRAPH" [] m = 1 -> "SYSINFO" [] m = 2 -> "PROCS"
    [] m = 3 -> "RESOURCE_MGR" [] m = 4 -> "HELP" [] m = 5 -> "ABOUT"
\* The graph page stands for the four pages that show no process table
\* (graphs, system information, help, about): their handlers are the same.

\* Enter on the main page with menu_sel = m, for the entries that only
\* change the page; menu_sel itself is moved by the arrow keys and read
\* nowhere else, so the handler takes it as its input.
KeyMenuEnter ==
  /\ pc = "loop"
  /\ page = "MAIN"
  /\ \E m \in {0, 3} : page' = MenuPage(m)
  /\ Quiet("key_menu")
  /\ UNCHANGED <<procVars, policyVars, proc_sel, sort_mode, cpuVars, memVars,
                 t_cpu, t_proc, clock, pc>>

\* Enter with menu_sel = 2: the process page, entered with a fresh scan
\* and no policy pass
KeyMenuProcs(Steps, Dirs) ==
  /\ pc = "loop"
  /\ page = "MAIN"
  /\ \E d \in Steps :
       /\ now_ms(d) <= MaxTime
       /\ clock' = now_ms(d)
       /\ \E dr \in Dirs :
            \E sc \in {scan_processes(dr.dir_ok, dr.dir, now_ms(d), prev, prev_time_ms)} :
              /\ procs' = sc[1] /\ prev' = sc[2] /\ prev_time_ms' = sc[3]
              /\ scanned' = scan_note(dr, now_ms(d), prev, prev_time_ms, scanned)
  /\ page' = "PROCS"
  /\ signals' = <<>>
  /\ held' = held
  /\ resumed' = resumed
  /\ lastOp' = "key_menu_procs"
  /\ UNCHANGED <<policyVars, proc_sel, sort_mode, cpuVars, memVars,
                 t_cpu, t_proc, pc>>

\* Enter with menu_sel = 6: quit
KeyMenuQuit ==
  /\ pc = "loop"
  /\ page = "MAIN"
  /\ pc' = "done"
  /\ Quiet("key_menu_quit")
  /\ UNCHANGED <<procVars, policyVars, uiVars, cpuVars, memVars, t_cpu, t_proc, clock>>

\* 'D' on the resource page: drop the last priority entry
KeyRemovePriority ==
  /\ pc = "loop"
  /\ page = "RESOURCE_MGR"
  /\ priority_procs' = IF num_priority_procs > 0
                         THEN SubSeq(priority_procs, 1, num_priority_procs - 1)
                         ELSE priority_procs
  /\ Quiet("key_remove_priority")
  /\ UNCHANGED <<procVars, auto_manage_enabled, uiVars, cpuVars, memVars,
                 t_cpu, t_proc, clock, pc>>

\* 'T' on the resource page: flip auto-management; resume on switching off
KeyToggleAuto ==
  /\ pc = "loop"
  /\ page = "RESOURCE_MGR"
  /\ auto_manage_enabled' = ~auto_manage_enabled
  /\ IF auto_manage_enabled
       THEN \E kill_ok \in KillOkSets :
              \E rs \in {resume_suspended(procs, kill_ok)} :
                procs' = rs[1] /\ signals' = rs[2]
       ELSE procs' = procs /\ signals' = <<>>
  /\ held' = held \ attempted(signals', "SIGCONT")
  /\ resumed' = resumed
  /\ scanned' = scanned
  /\ lastOp' = "key_toggle"
  /\ UNCHANGED <<prev, prev_time_ms, priority_procs, uiVars, cpuVars, memVars,
                 t_cpu, t_proc, clock, pc>>

\* 'R' on the resource page
KeyResumeAll ==
  /\ pc = "loop"
  /\ page = "RESOURCE_MGR"
  /\ \E kill_ok \in KillOkSets :
       \E rs \in {resume_suspended(procs, kill_ok)} :
         procs' = rs[1] /\ signals' = rs[2]
  /\ held' = held \ attempted(signals', "SIGCONT")
  /\ resumed' = resumed \cup attempted(signals', "SIGCONT")
  /\ scanned' = scanned
  /\ lastOp' = "key_resume"
  /\ UNCHANGED <<prev, prev_time_ms, policyVars, uiVars, cpuVars, memVars,
                 t_cpu, t_proc, clock, pc>>

\* up/'k', down/'j', page up, page down on the process page
KeySelect ==
  /\ pc = "loop"
  /\ page = "PROCS"
  /\ \E n \in {1, 10} :
       \/ proc_sel' = (IF drawn_sel - n < 0 THEN 0 ELSE drawn_sel - n)
       \/ /\ drawn_sel + n <= MaxSel \/ nprocs > 0
          /\ proc_sel' = (IF nprocs > 0 /\ drawn_sel + n >= nprocs THEN nprocs - 1
                          ELSE drawn_sel + n)
  /\ procs' = drawn_procs
  /\ Quiet("key_select")
  /\ UNCHANGED <<prev, prev_time_ms, policyVars, page, sort_mode, cpuVars, memVars,
                 t_cpu, t_proc, clock, pc>>

\* 'c', 'm' on the process page
KeySortMode ==
  /\ pc = "loop"
  /\ page = "PROCS"
  /\ \E m \in {0, 1} : sort_mode' = m
  /\ procs' = drawn_procs
  /\ proc_sel' = drawn_sel
  /\ Quiet("key_sort")
  /\ UNCHANGED <<prev, prev_time_ms, policyVars, page, cpuVars, memVars,
                 t_cpu, t_proc, clock, pc>>

\* nprocs > 0 && proc_sel >= 0 && proc_sel < nprocs
selected(sel, n) == n > 0 /\ sel >= 0 /\ sel < n

\* 'A' on the process page: the new priority list
add_priority_no_dup_check(plist, tbl, sel) ==
  IF selected(sel, Len(tbl)) /\ Len(plist) < MAX_PRIORITY_PROCS
    THEN Append(plist, tbl[sel + 1].comm)
    ELSE plist
add_priority(plist, tbl, sel) ==
  IF /\ selected(sel, Len(tbl))
     /\ Len(plist) < MAX_PRIORITY_PROCS
     /\ ~\E i \in 1..Len(plist) : plist[i] = tbl[sel + 1].comm
    THEN Append(plist, tbl[sel + 1].comm)
    ELSE plist

KeyAddPriority ==
  /\ pc = "loop"
  /\ page = "PROCS"
  /\ priority_procs' = add_priority(priority_procs, drawn_procs, drawn_sel)
  /\ procs' = drawn_procs
  /\ proc_sel' = drawn_sel
  /\ Quiet("key_add_priority")
  /\ UNCHANGED <<prev, prev_time_ms, auto_manage_enabled, page, sort_mode, cpuVars,
                 memVars, t_cpu, t_proc, clock, pc>>

\* act_kill(pid): SIGTERM, and SIGKILL 200 ms later when sending SIGTERM failed
act_kill(pid, kill_ok) ==
  IF pid \in kill_ok THEN <<Signal(pid, "SIGTERM", TRUE)>>
  ELSE <<Signal(pid, "SIGTERM", FALSE), Signal(pid, "SIGKILL", FALSE)>>

\* 'K' on the process page
KeyKill ==
  /\ pc = "loop"
  /\ page = "PROCS"
  /\ \E kill_ok \in KillOkSets :
       signals' = IF selected(drawn_sel, nprocs)
                    THEN act_kill(drawn_procs[drawn_sel + 1].pid, kill_ok)
                    ELSE <<>>
  /\ procs' = drawn_procs
  /\ proc_sel' = drawn_sel
  /\ held' = held
  /\ resumed' = resumed
  /\ scanned' = scanned
  /\ lastOp' = "key_kill"
  /\ UNCHANGED <<prev, prev_time_ms, policyVars, page, sort_mode, cpuVars, memVars,
                 t_cpu, t_proc, clock, pc>>

act_stopcont_flip_on_success(p, kill_ok) ==
  IF p.running
    THEN << [p EXCEPT !.running = p.pid \notin kill_ok],
            <<Signal(p.pid, "SIGSTOP", p.pid \in kill_ok)>> >>
    ELSE << [p EXCEPT !.running = p.pid \in kill_ok],
            <<Signal(p.pid, "SIGCONT", p.pid \in kill_ok)>> >>
\* act_stopcont(p): <<the record after the call, the signal sent>>
act_stopcont(p, kill_ok) ==
  IF p.running
    THEN << [p EXCEPT !.running = FALSE], <<Signal(p.pid, "SIGSTOP", p.pid \in kill_ok)>> >>
    ELSE << [p EXCEPT !.running = TRUE], <<Signal(p.pid, "SIGCONT", p.pid \in kill_ok)>> >>

\* 'S' on the process page
KeyStopCont ==
  /\ pc = "loop"
  /\ page = "PROCS"
  /\ \E kill_ok \in KillOkSets :
       IF selected(drawn_sel, nprocs)
         THEN \E r \in {act_stopcont(drawn_procs[drawn_sel + 1], kill_ok)} :
                /\ procs' = [drawn_procs EXCEPT ![drawn_sel + 1] = r[1]]
                /\ signals' = r[2]
         ELSE procs' = drawn_procs /\ signals' = <<>>
  /\ proc_sel' = drawn_sel
  /\ held' = held \ attempted(signals', "SIGCONT")
  /\ resumed' = resumed
  /\ scanned' = scanned
  /\ lastOp' = "key_stopcont"
  /\ UNCHANGED <<prev, prev_time_ms, policyVars, page, sort_mode, cpuVars, memVars,
                 t_cpu, t_proc, clock, pc>>

\* a getpriority() or setpriority() call: ok is whether it succeeded, val
\* the priority it returned or was given
NiceCall(pid, call, ok, val) == [pid |-> pid, sig |-> call, ok |-> ok, val |-> val]
NICE_MIN == -20
NICE_MAX == 19

\* act_renice(pid, delta): the calls it makes; prio_ok is whether
\* getpriority() left errno at 0, old what it returned, set_ok whether
\* setpriority() succeeded.
act_renice_unclamped(pid, delta, prio_ok, old, set_ok) ==
  IF ~prio_ok THEN <<NiceCall(pid, "getpriority", FALSE, 0)>>
  ELSE <<NiceCall(pid, "getpriority", TRUE, old),
         NiceCall(pid, "setpriority", set_ok, old + delta)>>
act_renice(pid, delta, prio_ok, old, set_ok) ==
  IF ~prio_ok THEN <<NiceCall(pid, "getpriority", FALSE, 0)>>
  ELSE LET nv0 == old + delta
           nv1 == IF nv0 < NICE_MIN THEN NICE_MIN ELSE nv0
           nv == IF nv1 > NICE_MAX THEN NICE_MAX ELSE nv1
       IN  <<NiceCall(pid, "getpriority", TRUE, old),
             NiceCall(pid, "setpriority", set_ok, nv)>>

\* the priorities getpriority() may return
NiceValues == NICE_MIN..NICE_MAX

\* '+' on the process page: act_renice(pid, -1); '-': act_renice(pid, +1)
KeyRenice ==
  /\ pc = "loop"
  /\ page = "PROCS"
  /\ \E delta \in {-1, 1} :
       /\ lastOp' = (IF delta = -1 THEN "key_plus" ELSE "key_minus")
       /\ IF selected(drawn_sel, nprocs)
            THEN \E prio_ok \in BOOLEAN, set_ok \in BOOLEAN :
                   \E old \in (IF prio_ok THEN NiceValues ELSE {0}) :
                     /\ prio_ok \/ set_ok
                     /\ signals' = act_renice(drawn_procs[drawn_sel + 1].pid, delta,
                                              prio_ok, old, set_ok)
            ELSE signals' = <<>>
  /\ procs' = drawn_procs
  /\ proc_sel' = drawn_sel
  /\ held' = held
  /\ resumed' = resumed
  /\ scanned' = scanned
  /\ UNCHANGED <<prev, prev_time_ms, policyVars, page, sort_mode, cpuVars, memVars,
                 t_cpu, t_proc, clock, pc>>

(* ---------------------------- Specifications -------------------------- *)
\* The process table under the policy: scans, policy passes, the priority
\* list and the resource-page commands.  The CPU sampler is left at rest.
Next ==
  \/ StartupSample(NcpuReadsQuiet, CpuReadsQuiet)
  \/ Startup(CpuReadsQuiet, DirReads)
  \/ TimerProc(PolicySteps, DirReads)
  \/ TimerProcSkip(PolicySteps)
  \/ DrawProcs
  \/ KeyBack
  \/ KeyMenuEnter
  \/ KeyMenuProcs(ProcSteps, DirReads)
  \/ KeyRemovePriority
  \/ KeyToggleAuto
  \/ KeyResumeAll
  \/ KeyAddPriority

Spec == Init /\ [][Next]_vars

\* The scanner alone, on a /proc whose counters move both ways and whose
\* files vanish; auto-management stays off.
NextScan ==
  \/ StartupSample(NcpuReadsQuiet, CpuReadsQuiet)
  \/ Startup(CpuReadsQuiet, ScanDirReads)
  \/ TimerProc(ProcSteps, ScanDirReads)
  \/ TimerProcSkip(ProcSteps)
  \/ KeyBack
  \/ KeyQuit
  \/ KeyMenuEnter
  \/ KeyMenuProcs(ProcSteps, ScanDirReads)
  \/ KeyMenuQuit

SpecScan == Init /\ [][NextScan]_vars

\* The CPU sampler and the history rings; /proc lists no process.
NextCpu ==
  \/ StartupSample(NcpuReads, CpuReads)
  \/ Startup(CpuReads, DirReadsQuiet)
  \/ TimerCpu(CpuSteps, CpuReads)

SpecCpu == Init /\ [][NextCpu]_vars

\* The memory ring alone: /proc/stat is unreadable and /proc lists nothing.
NextMem ==
  \/ StartupSample(NcpuReadsQuiet, MemReads)
  \/ Startup(MemReads, DirReadsQuiet)
  \/ TimerCpu(CpuSteps, MemReads)

SpecMem == Init /\ [][NextMem]_vars

\* The commands of the process page on a small table.
NextCmd ==
  \/ StartupSample(NcpuReadsQuiet, CpuReadsQuiet)
  \/ Startup(CpuReadsQuiet, CmdDirReads)
  \/ KeyBack
  \/ KeyMenuProcs(PolicySteps, CmdDirReads)
  \/ KeySelect
  \/ KeySortMode
  \/ KeyKill
  \/ KeyStopCont
  \/ KeyRenice

SpecCmd == Init /\ [][NextCmd]_vars

\* The loop with both timers, the pages and the keys that set up the policy.
NextLoop ==
  \/ StartupSample(NcpuReadsQuiet, LoopCpuReads)
  \/ Startup(LoopCpuReads, LoopDirReads)
  \/ LoopTimers(LoopSteps, LoopCpuReads, LoopDirReads)
  \/ KeyBack
  \/ KeyMenuEnter
  \/ KeyMenuProcs(LoopKeySteps, LoopDirReads)
  \/ KeyAddPriority
  \/ KeyToggleAuto

SpecLoop == Init /\ [][NextLoop]_vars

\* The same loop with slow iterations and an unreadable /proc/stat, under
\* the assumption that it keeps iterating: the timer blocks run again and
\* again while the clock of the model lasts.
NextLive ==
  \/ StartupSample(NcpuReadsQuiet, CpuReadsQuiet)
  \/ Startup(CpuReadsQuiet, LoopDirReads)
  \/ LoopTimers(CpuSteps, CpuReadsQuiet, LoopDirReads)
  \/ KeyBack
  \/ KeyMenuEnter
  \/ KeyMenuProcs(LiveKeySteps, LoopDirReads)
  \/ KeyAddPriority
  \/ KeyToggleAuto

\* The resource-page commands next to the stop/continue command of the
\* process page, with the policy passes of the loop in between.
NextResume ==
  \/ StartupSample(NcpuReadsQuiet, CpuReadsQuiet)
  \/ Startup(CpuReadsQuiet, LoopDirReads)
  \/ LoopTimers(CpuSteps, CpuReadsQuiet, LoopDirReads)
  \/ KeyBack
  \/ KeyMenuEnter
  \/ KeyMenuProcs(LiveKeySteps, LoopDirReads)
  \/ KeySelect
  \/ KeyStopCont
  \/ KeyAddPriority
  \/ KeyToggleAuto
  \/ KeyResumeAll

SpecResume == Init /\ [][NextResume]_vars

FairSpecLive ==
  Init /\ [][NextLive]_vars /\ WF_vars(LoopTimers(CpuSteps, CpuReadsQuiet, LoopDirReads))

(* ------------------------- Claims C1 - C4 (Spec) ---------------------- *)
protected(p) == p.uid = 0 \/ is_system_critical(p.comm)

\* C1: the policy pass never sends a stop signal to, and never marks as
\* suspended, a record that is owned by uid 0 or whose command name
\* contains a system-critical name, whatever its CPU% and resident memory:
\* no record of the table is both protected and marked, and after a step
\* that ran the policy pass none of its stop signals went to a protected
\* record.
C1_PolicyNeverStopsProtected ==
  /\ \A i \in 1..nprocs : procs[i].suspended_by_manager => ~protected(procs[i])
  /\ lastOp = "timer_proc" =>
       \A i \in 1..nprocs :
         procs[i].pid \in attempted(signals, "SIGSTOP") => ~protected(procs[i])

\* A policy pass has just stopped some process while a running root-owned
\* record above the memory limit sat in the same table.
C1_Witness ==
  /\ lastOp = "timer_proc"
  /\ attempted(signals, "SIGSTOP") # {}
  /\ \E i \in 1..nprocs :
       /\ procs[i].uid = 0 /\ procs[i].rss_kb > RSS_LIMIT_KB /\ procs[i].running
       /\ ~is_system_critical(procs[i].comm)
       /\ ~is_priority_proc(procs[i].comm, priority_procs)

ScanOnlyOps == {"key_menu_procs"}
ScanPolicyOps == {"timer_proc", "timer_both"}

\* C2: for a pid listed before and after a scan, suspended_by_manager after
\* the scan is what the pid's record held when the scan started (a scan
\* followed in the same step by the policy pass may only add marks).
C2_FlagCarriedAcrossScan ==
  [][ /\ lastOp' \in ScanOnlyOps =>
           \A i \in 1..Len(procs), j \in 1..Len(procs') :
             procs[i].pid = procs'[j].pid =>
               procs'[j].suspended_by_manager = procs[i].suspended_by_manager
      /\ lastOp' \in ScanPolicyOps =>
           \A i \in 1..Len(procs), j \in 1..Len(procs') :
             (procs[i].pid = procs'[j].pid /\ procs[i].suspended_by_manager) =>
               procs'[j].suspended_by_manager ]_vars

\* the process Q of the scenario: ordinary user, ordinary name, running, busy
busy_ordinary(p, plist) ==
  /\ p.uid # 0 /\ ~is_system_critical(p.comm) /\ ~is_priority_proc(p.comm, plist)
  /\ p.running /\ RGtInt(p.cpu_pct, CPU_LIMIT_PCT)

\* C3: with auto-management on and a priority process running, the policy
\* pass sends a stop signal to every busy ordinary process and marks it when
\* the signal was delivered; and when auto-management is switched off, every
\* process the policy stopped that is still listed as stopped is sent a
\* continue signal, whatever scans happened in between.
C3_StoppedThenContinuedOnDisable ==
  [][ /\ (lastOp' \in ScanPolicyOps /\ auto_manage_enabled
            /\ priority_running(procs', priority_procs)) =>
           \A j \in 1..Len(procs') :
             busy_ordinary(procs'[j], priority_procs) =>
               /\ procs'[j].pid \in attempted(signals', "SIGSTOP")
               /\ procs'[j].pid \in delivered(signals', "SIGSTOP") =>
                    procs'[j].suspended_by_manager
      /\ (auto_manage_enabled /\ ~auto_manage_enabled') =>
           \A i \in 1..Len(procs) :
             (procs[i].pid \in held /\ ~procs[i].running) =>
               procs[i].pid \in attempted(signals', "SIGCONT") ]_vars

\* C4: in the step that switches auto-management off, no record is left
\* marked as suspended, and that step neither scans nor runs the policy.
C4_NoSuspendedAfterDisable ==
  [][ (auto_manage_enabled /\ ~auto_manage_enabled') =>
        /\ \A j \in 1..Len(procs') : ~procs'[j].suspended_by_manager
        /\ prev' = prev /\ prev_time_ms' = prev_time_ms
        /\ attempted(signals', "SIGSTOP") = {}
        /\ lastOp' = "key_toggle" ]_vars

\* Auto-management has just been switched off and the resume pass sent a
\* continue signal to a marked record.
C4_Witness ==
  /\ lastOp = "key_toggle"
  /\ ~auto_manage_enabled
  /\ attempted(signals, "SIGCONT") # {}

(* ----------------------- Claims C5 - C8 (SpecScan) -------------------- *)
ScanOps == {"startup", "key_menu_procs", "timer_proc", "timer_both"}
table_pids(tbl) == { tbl[i].pid : i \in 1..Len(tbl) }

\* C5: after a process scan the table holds exactly the pids whose comm,
\* stat and status files were all read during that scan, and nothing when
\* /proc could not be opened.
C5_TableIsWhatWasRead ==
  lastOp \in ScanOps =>
    table_pids(procs) =
      IF scanned.dir_ok
        THEN { scanned.dir[k].pid : k \in
                 { k \in 1..Len(scanned.dir) :
                     /\ scanned.dir[k].comm_ok
                     /\ scanned.dir[k].stat_ok
                     /\ scanned.dir[k].status_ok } }
        ELSE {}

\* C6: a pid that the table left by the preceding scan does not hold has
\* cpu_pct 0 in the table of the scan that lists it.
C6_NewPidHasZeroCpu ==
  [][ lastOp' \in ScanOps =>
        \A j \in 1..Len(procs') :
          procs'[j].pid \notin table_pids(procs) => procs'[j].cpu_pct = RZero ]_vars

\* C7: every record's cpu_pct is a finite number not below 0, also after a
\* scan that found utime or stime lower than before and after a scan that
\* ran 0 ms after the previous one.
C7_CpuPercentNonNegativeFinite ==
  \A i \in 1..nprocs : procs[i].cpu_pct[2] > 0 /\ procs[i].cpu_pct[1] >= 0

\* A scan a positive time after the previous one has just listed a pid one of
\* whose counters is lower than in prev[].
C7_Witness ==
  /\ lastOp \in ScanOps
  /\ scanned.elapsed > 0
  /\ \E i \in 1..nprocs : procs[i].pid \in scanned.fell

\* the time between a scan at time t and the scan that filled prev[]
elapsed_at(t) == IF prev_time_ms > 0 THEN t - prev_time_ms ELSE 1500

\* C8 as stated: for a pid held in prev[], with a positive time between the
\* two scans, cpu_pct is the increase of utime + stime taken as one
\* difference and floored at 0, times 1000 / ticks per second, times 100,
\* over the elapsed milliseconds.
C8_SingleDifferenceFormula ==
  [][ (lastOp' \in ScanOps /\ elapsed_at(clock') > 0) =>
        \A j \in 1..Len(procs') :
          LET i == prev_index(prev, procs'[j].pid)
              d == (procs'[j].ut + procs'[j].st) - (prev[i].ut + prev[i].st)
          IN  i > 0 =>
                procs'[j].cpu_pct =
                  Rat((IF d > 0 THEN d ELSE 0) * 1000 * 100,
                      CLK_TCK * elapsed_at(clock')) ]_vars

\* C8 amended: for a pid held in prev[], the ticks are the increase of
\* utime floored at 0 plus the increase of stime floored at 0, each counter
\* on its own; cpu_pct is those ticks times 1000 / ticks per second, times
\* 100, over the milliseconds since the scan that filled prev[], and 0 when
\* no time has passed.
C8_PerCounterFormula ==
  [][ lastOp' \in ScanOps =>
        \A j \in 1..Len(procs') :
          LET i == prev_index(prev, procs'[j].pid)
              du == procs'[j].ut - prev[i].ut
              ds == procs'[j].st - prev[i].st
              ticks == (IF du > 0 THEN du ELSE 0) + (IF ds > 0 THEN ds ELSE 0)
          IN  i > 0 =>
                procs'[j].cpu_pct =
                  IF elapsed_at(clock') > 0
                    THEN Rat(ticks * 1000 * 100, CLK_TCK * elapsed_at(clock'))
                    ELSE RZero ]_vars

\* A scan has just given a positive cpu_pct to a pid one of whose counters
\* is lower than in prev[]: the other counter's increase was counted alone.
C8_Witness ==
  /\ lastOp \in ScanOps
  /\ \E i \in 1..nprocs :
       procs[i].pid \in scanned.fell /\ RLess(RZero, procs[i].cpu_pct)

(* ----------------------- Claims C9 - C10 (SpecCpu) -------------------- *)
in01(x) == x[2] > 0 /\ ~RLess(x, RZero) /\ ~RLess(ROne, x)
SampleOps == {"startup_sample", "startup", "timer_cpu", "timer_both", "timer_cpu_skip"}

\* C9: after a CPU sampling tick cpu.total and cpu.core[i] of every detected
\* core lie within [0,1], whatever the counters read, a counter lower than
\* at the previous tick included.
C9_SnapshotWithinUnitInterval ==
  lastOp \in SampleOps =>
    /\ in01(cpu.total)
    /\ \A i \in 0..(CoreSlots - 1) : i < cpu.ncores => in01(cpu.core[i])

\* C10: every value in a per-core history ring lies within [0,1].
C10_HistoryWithinUnitInterval ==
  \A i \in DOMAIN hist_cpu : \A j \in DOMAIN hist_cpu[i] : in01(hist_cpu[i][j])

\* A sampling tick has just left a core's utilization below 0 in the
\* snapshot and written that core's ring slot.
C10_Witness ==
  /\ lastOp = "timer_cpu"
  /\ \E i \in 0..(CoreSlots - 1) :
       /\ i < cpu.ncores
       /\ RLess(cpu.core[i], RZero)
       /\ hist_cpu[i][(hpos + HIST_W - 1) % HIST_W] = RZero

(* ---------------------- Claims C11 - C13 (SpecCpu) -------------------- *)
\* C11: the first call of cpu_sample() that reads /proc/stat leaves cpu.total
\* and every cpu.core[i] at 0 whatever the counters read, and keeps the
\* eight counters of every line it took as the tuple the next tick
\* compares with.
C11_FirstTickYieldsZero ==
  [][ (~initialized /\ initialized') =>
        /\ cpu'.total = RZero
        /\ \A i \in 0..(CoreSlots - 1) : cpu'.core[i] = RZero
        /\ \A k \in 0..(sampled'.idx - 1) : cpu_prev'[k] = sampled'.lines[k + 1].v ]_vars

\* Exactly one sampling tick has read /proc/stat; it took an aggregate line
\* and a core line with counters other than 0.
C11_Witness ==
  /\ initialized
  /\ Len(ring_log[0]) = 1
  /\ sampled.stat_ok /\ sampled.idx = 2
  /\ sampled.lines[1].v # ZeroTuple /\ sampled.lines[2].v # ZeroTuple
  /\ cpu.total = RZero /\ cpu.core[0] = RZero

\* the sum of the eight counters of a line, and whether no counter of v is
\* below its value in pv
sum8(v) == v[1] + v[2] + v[3] + v[4] + v[5] + v[6] + v[7] + v[8]
none_fell(v, pv) == \A f \in 1..8 : v[f] >= pv[f]
\* the lines of the file that come before its first line not labelled cpu
cpu_line_count(lines) ==
  IF \A k \in 1..Len(lines) : lines[k].cpu THEN Len(lines)
  ELSE (CHOOSE k \in 1..Len(lines) : ~lines[k].cpu /\ \A j \in 1..(k - 1) : lines[j].cpu) - 1
\* cpu.total for line 0, cpu.core[k - 1] for line k
line_use(c, k) == IF k = 0 THEN c.total ELSE c.core[k - 1]

\* C12: on a sampling tick after the first, for the aggregate line and every
\* core line of /proc/stat that the previous tick's file also had, with no
\* counter lower than before, the utilization is 1 - idleDelta / totalDelta
\* when totalDelta > 0 and 0 otherwise, the deltas taken from the previous
\* tick's line of the same index.
C12_UtilizationFormula ==
  [][ (initialized /\ sampled.stat_ok /\ sampled'.stat_ok /\ lastOp' \in {"startup", "timer_cpu"}) =>
        \A k \in 0..CoreSlots :
          ( /\ k < cpu_line_count(sampled.lines)
            /\ k < cpu_line_count(sampled'.lines)
            /\ none_fell(sampled'.lines[k + 1].v, sampled.lines[k + 1].v) ) =>
            LET totalDelta == sum8(sampled'.lines[k + 1].v) - sum8(sampled.lines[k + 1].v)
                idleDelta == sampled'.lines[k + 1].v[4] - sampled.lines[k + 1].v[4]
            IN  line_use(cpu', k) =
                  IF totalDelta > 0 THEN Rat(totalDelta - idleDelta, totalDelta) ELSE RZero ]_vars

\* C13: the cursor hpos lies in 0..HIST_W-1; every sampling tick advances it
\* by one modulo HIST_W and writes the sample of every detected core at the
\* slot the cursor pointed to, leaving the other slots as they were; and a
\* ring that took HIST_W samples in a row holds exactly those, oldest first
\* when read from the cursor on.
C13_SharedCursorRing ==
  [][ /\ hpos' \in 0..(HIST_W - 1)
      /\ lastOp' \in SampleOps =>
           /\ hpos' = (hpos + 1) % HIST_W
           /\ \A i \in 0..(CoreSlots - 1) : \A j \in 0..(HIST_W - 1) :
                hist_cpu'[i][j] =
                  IF j = hpos /\ i < cpu'.ncores
                    THEN clamp01(cpu'.core[i])
                    ELSE hist_cpu[i][j]
           /\ \A i \in 0..(CoreSlots - 1) :
                Len(ring_log'[i]) = HIST_W =>
                  [j \in 1..HIST_W |-> hist_cpu'[i][wave_index(hpos', HIST_W, j - 1)]]
                    = ring_log'[i] ]_vars

(* ---------------------- Claims C14 - C16 (SpecCmd) -------------------- *)
\* C14: a kill command on a selected record sends SIGTERM and then SIGKILL
\* to the record's pid, whether or not sending SIGTERM succeeded.
C14_KillAlwaysFollowsTerm ==
  [][ (lastOp' = "key_kill" /\ signals' # <<>>) =>
        /\ Len(signals') = 2
        /\ signals'[1].sig = "SIGTERM" /\ signals'[2].sig = "SIGKILL"
        /\ signals'[2].pid = signals'[1].pid ]_vars

\* C15: a renice command on a selected record that reads the current
\* priority cur applies max(-20, min(19, cur + delta)) to the same pid, with
\* delta -1 for '+' and +1 for '-'; when the priority cannot be read it
\* applies nothing.
C15_ReniceClamped ==
  [][ (lastOp' \in {"key_plus", "key_minus"} /\ signals' # <<>>) =>
        LET delta == IF lastOp' = "key_plus" THEN -1 ELSE 1
            get == signals'[1]
            want == get.val + delta
        IN  /\ get.sig = "getpriority"
            /\ IF get.ok
                 THEN /\ Len(signals') = 2
                      /\ signals'[2].sig = "setpriority"
                      /\ signals'[2].pid = get.pid
                      /\ signals'[2].val =
                           (IF want < -20 THEN -20 ELSE IF want > 19 THEN 19 ELSE want)
                 ELSE Len(signals') = 1 ]_vars

\* A renice command has just applied 19 to a record whose priority read 19.
C15_Witness ==
  /\ lastOp = "key_minus"
  /\ Len(signals) = 2
  /\ signals[1].ok /\ signals[1].val = 19
  /\ signals[2].sig = "setpriority" /\ signals[2].val = 19

\* the records of a table, whatever their order
records_of(tbl) == { tbl[i] : i \in 1..Len(tbl) }

\* C16: when the kill() of a kill command or the setpriority() of a renice
\* command fails, the command makes no further call, and the records of the
\* table, the priority list and the auto-management flag stay as they were.
C16_DeniedFailsSilently ==
  [][ /\ (lastOp' = "key_kill" /\ signals' # <<>> /\ ~signals'[1].ok) =>
           /\ Len(signals') = 1
           /\ records_of(procs') = records_of(procs)
           /\ priority_procs' = priority_procs
           /\ auto_manage_enabled' = auto_manage_enabled
      /\ (lastOp' \in {"key_plus", "key_minus"} /\ Len(signals') >= 2 /\ ~signals'[2].ok) =>
           /\ Len(signals') = 2
           /\ records_of(procs') = records_of(procs)
           /\ priority_procs' = priority_procs
           /\ auto_manage_enabled' = auto_manage_enabled ]_vars

(* ----------------------- Claims C17 - C20 (Spec) ---------------------- *)
\* the table a scan step handed to the policy pass: scan_processes() copies
\* it to prev before the pass runs, and leaves the table empty when /proc
\* could not be opened
scan_table(sc, pv) == IF sc.dir_ok THEN pv ELSE <<>>

\* C17: a policy pass over a table in which no record both matches the
\* priority list and is running sends no signal, neither stop nor continue,
\* and leaves every record as the scan produced it, also when processes the
\* policy stopped earlier are still held.
C17_NoPriorityNoAction ==
  [][ (lastOp' \in ScanPolicyOps /\ auto_manage_enabled
         /\ ~priority_running(scan_table(scanned', prev'), priority_procs)) =>
        /\ signals' = <<>>
        /\ procs' = scan_table(scanned', prev') ]_vars

\* A policy pass has just run over a table with a busy ordinary process and
\* no running priority process, while a process stopped earlier is held.
C17_Witness ==
  /\ lastOp = "timer_proc"
  /\ auto_manage_enabled
  /\ held # {}
  /\ ~priority_running(procs, priority_procs)
  /\ \E i \in 1..nprocs : busy_ordinary(procs[i], priority_procs)
  /\ signals = <<>>

\* C18: in a policy pass with auto-management on and a priority process
\* running, a record is sent SIGSTOP if and only if it does not match the
\* priority list, carries no system-critical name, has a uid other than 0,
\* is running, is not marked suspended, and has cpu_pct > 10 or more than
\* 500000 kB resident; the pass marks exactly the records whose SIGSTOP was
\* delivered and changes nothing else.
C18_StopExactlyCandidates ==
  [][ (lastOp' \in ScanPolicyOps /\ auto_manage_enabled
         /\ priority_running(scan_table(scanned', prev'), priority_procs)) =>
        LET tbl == scan_table(scanned', prev')
        IN  /\ Len(procs') = Len(tbl)
            /\ attempted(signals', "SIGSTOP") \subseteq table_pids(tbl)
            /\ \A i \in 1..Len(tbl) :
                 /\ tbl[i].pid \in attempted(signals', "SIGSTOP") <=>
                      /\ ~is_priority_proc(tbl[i].comm, priority_procs)
                      /\ ~is_system_critical(tbl[i].comm)
                      /\ tbl[i].uid # 0
                      /\ tbl[i].running
                      /\ ~tbl[i].suspended_by_manager
                      /\ (RGtInt(tbl[i].cpu_pct, 10) \/ tbl[i].rss_kb > 500000)
                 /\ procs'[i] =
                      [tbl[i] EXCEPT !.suspended_by_manager =
                         tbl[i].suspended_by_manager
                           \/ tbl[i].pid \in delivered(signals', "SIGSTOP")] ]_vars

\* A policy pass has just sent a stop signal that was refused to a record
\* over the memory limit alone, left it unmarked, and sent none to a running
\* record over the same limit that is protected.
C18_Witness ==
  /\ lastOp = "timer_proc"
  /\ auto_manage_enabled
  /\ priority_running(procs, priority_procs)
  /\ \E i, j \in 1..nprocs :
       /\ procs[i].running /\ procs[i].rss_kb > 500000
       /\ procs[i].pid \notin attempted(signals, "SIGSTOP")
       /\ procs[j].pid \in attempted(signals, "SIGSTOP") \ delivered(signals, "SIGSTOP")
       /\ procs[j].rss_kb > 500000 /\ ~RGtInt(procs[j].cpu_pct, 10)
       /\ ~procs[j].suspended_by_manager

\* C19: the resume-all command sends SIGCONT to exactly the records marked
\* suspended, leaves no record marked and changes nothing else of the
\* table, and leaves the auto-management flag and the priority list as they
\* were.
C19_ResumeAll ==
  [][ lastOp' = "key_resume" =>
        /\ attempted(signals', "SIGCONT") =
             { procs[i].pid : i \in { k \in 1..Len(procs) : procs[k].suspended_by_manager } }
        /\ attempted(signals', "SIGSTOP") = {}
        /\ procs' = [i \in 1..Len(procs) |->
                       [procs[i] EXCEPT !.suspended_by_manager = FALSE]]
        /\ auto_manage_enabled' = auto_manage_enabled
        /\ priority_procs' = priority_procs ]_vars

\* The resume-all command has just sent SIGCONT to a marked record while
\* auto-management stays on with a non-empty priority list.
C19_Witness ==
  /\ lastOp = "key_resume"
  /\ attempted(signals, "SIGCONT") # {}
  /\ auto_manage_enabled
  /\ priority_procs # <<>>
  /\ \A i \in 1..nprocs : ~procs[i].suspended_by_manager

\* C20: a step that scans while auto-management is on runs the policy pass
\* over the scanned table, whether the timer or entering the process page
\* triggered the scan: when a priority process is running, every record the
\* policy would stop has been sent SIGSTOP by the end of the step.
C20_EveryScanRunsPolicy ==
  [][ (lastOp' \in ScanOps \ {"startup"} /\ auto_manage_enabled
         /\ priority_running(scan_table(scanned', prev'), priority_procs)) =>
        \A i \in 1..Len(scan_table(scanned', prev')) :
          stop_candidate(scan_table(scanned', prev')[i], priority_procs) =>
            scan_table(scanned', prev')[i].pid \in attempted(signals', "SIGSTOP") ]_vars

(* ---------------------- Claims C21 (SpecScan), C22 (SpecCpu) ---------- *)
\* C21: a scan that ran to its end (it opened /proc) leaves in prev[] its
\* own table: the same pids in the same order with the same utime and
\* stime, and nothing of an older scan; no other step changes prev[]; and a
\* pid that such a scan reads and prev[] did not hold gets cpu_pct 0 and no
\* suspension mark, also when an older scan had listed it.
C21_PrevIsLastScan ==
  [][ IF lastOp' \in ScanOps /\ scanned'.dir_ok
        THEN /\ Len(prev') = Len(procs')
             /\ \A i \in 1..Len(prev') :
                  /\ prev'[i].pid = procs'[i].pid
                  /\ prev'[i].ut = procs'[i].ut
                  /\ prev'[i].st = procs'[i].st
             /\ \A j \in 1..Len(procs') :
                  procs'[j].pid \notin table_pids(prev) =>
                    /\ procs'[j].cpu_pct = RZero
                    /\ ~procs'[j].suspended_by_manager
        ELSE prev' = prev ]_vars

\* A scan at a positive time after the previous one has just listed, with
\* cpu_pct 0, a pid with a non-zero utime that the previous scan's table
\* lacked and an older scan's table held.
C21_Witness ==
  /\ lastOp \in ScanOps
  /\ scanned.dir_ok
  /\ scanned.elapsed > 0
  /\ \E j \in 1..nprocs :
       /\ procs[j].pid \in scanned.back
       /\ procs[j].ut > 0
       /\ procs[j].cpu_pct = RZero

\* the per-core lines of the file: its cpu lines but the first
core_line_count(lines) ==
  IF cpu_line_count(lines) > 0 THEN cpu_line_count(lines) - 1 ELSE 0

\* C22: after every sampling tick cpu.ncores is the number of per-core lines
\* that /proc/stat holds before its first line not labelled cpu, capped at
\* MAX_CORES and at the processor count NCPU, and 1 when there is no such
\* line or the file could not be read; so it is at least 1.
C22_CoreCount ==
  [][ lastOp' \in SampleOps =>
        LET k == core_line_count(sampled'.lines)
            cap == IF NCPU' < MAX_CORES THEN NCPU' ELSE MAX_CORES
        IN  /\ cpu'.ncores = (IF k = 0 THEN 1 ELSE IF k > cap THEN cap ELSE k)
            /\ cpu'.ncores >= 1 ]_vars

(* ------------------------- Claim C23 (Spec) --------------------------- *)
\* the entries of a priority list
entries_of(plist) == { plist[i] : i \in 1..Len(plist) }

\* C23: the priority list never holds more than MAX_PRIORITY_PROCS entries
\* (10 in the source); a step changes it only by the add command, which
\* appends the command name of a record of the table when the list is not
\* full and does not hold that name, or by the remove command, which drops
\* its last entry; the remove command on an empty list, scans, policy
\* passes and every other command leave it as it was.
C23_PriorityListByUserOnly ==
  [][ /\ Len(priority_procs') <= MAX_PRIORITY_PROCS
      /\ lastOp' = "key_remove_priority" =>
           priority_procs' =
             (IF priority_procs = <<>> THEN <<>>
              ELSE SubSeq(priority_procs, 1, Len(priority_procs) - 1))
      /\ lastOp' = "key_add_priority" =>
           \/ priority_procs' = priority_procs
           \/ /\ Len(priority_procs) < MAX_PRIORITY_PROCS
              /\ \E i \in 1..Len(procs) :
                   /\ procs[i].comm \notin entries_of(priority_procs)
                   /\ priority_procs' = Append(priority_procs, procs[i].comm)
      /\ lastOp' \notin {"key_add_priority", "key_remove_priority"} =>
           priority_procs' = priority_procs ]_vars

\* The add command has just filled the list with two different names while
\* the table holds a record whose name the list holds.
C23_Witness ==
  /\ lastOp = "key_add_priority"
  /\ Len(priority_procs) = MAX_PRIORITY_PROCS
  /\ Len(priority_procs) >= 2
  /\ \A i, j \in 1..Len(priority_procs) : i # j => priority_procs[i] # priority_procs[j]
  /\ \E i \in 1..nprocs : procs[i].comm \in entries_of(priority_procs)

(* ------------------------ Claim C24 (SpecCmd) ------------------------- *)
\* the record of a table with a given pid
record_of(tbl, pid) == tbl[CHOOSE i \in 1..Len(tbl) : tbl[i].pid = pid]

\* C24: the stop/continue command on a non-empty table sends one signal to
\* the selected record: SIGSTOP when its running field is true, SIGCONT when
\* it is false; it flips that field whether or not the signal was delivered
\* and changes no other record; and a scan that opened /proc sets the
\* running field of every record it lists from the state in the process's
\* stat file: false exactly for T (stopped) and Z (zombie).
C24_ToggleRunState ==
  [][ /\ lastOp' = "key_stopcont" =>
           IF procs = <<>> THEN signals' = <<>> /\ procs' = <<>>
           ELSE /\ Len(signals') = 1
                /\ signals'[1].pid \in table_pids(procs)
                /\ LET p == record_of(procs, signals'[1].pid)
                   IN  /\ signals'[1].sig = (IF p.running THEN "SIGSTOP" ELSE "SIGCONT")
                       /\ records_of(procs') =
                            (records_of(procs) \ {p})
                              \cup {[p EXCEPT !.running = ~p.running]}
      /\ (lastOp' \in ScanOps /\ scanned'.dir_ok) =>
           \A j \in 1..Len(procs') :
             \E k \in 1..Len(scanned'.dir) :
               /\ scanned'.dir[k].pid = procs'[j].pid
               /\ procs'[j].running = (scanned'.dir[k].state \notin {"T", "Z"}) ]_vars

\* The command has just marked as stopped a record whose SIGSTOP was refused.
C24_Witness ==
  /\ lastOp = "key_stopcont"
  /\ Len(signals) = 1
  /\ signals[1].sig = "SIGSTOP" /\ ~signals[1].ok
  /\ ~record_of(procs, signals[1].pid).running

(* ------------------------- Claim C25 (Spec) --------------------------- *)
\* C25 as stated: no policy pass sends SIGSTOP to a process that the
\* resume-all command has continued.
C25_NeverStoppedAgain ==
  lastOp \in ScanPolicyOps => attempted(signals, "SIGSTOP") \cap resumed = {}

\* C25 amended: the resume-all command leaves no trace that the policy
\* reads: in a later policy pass with auto-management on and a priority
\* process running, a process that the command has continued is sent SIGSTOP
\* again when it is running, of an ordinary user, neither a priority nor a
\* system-critical name, and over the CPU or the memory threshold.
C25_StoppedAgainWhenStillOver ==
  [][ (lastOp' \in ScanPolicyOps /\ auto_manage_enabled
         /\ priority_running(scan_table(scanned', prev'), priority_procs)) =>
        \A i \in 1..Len(scan_table(scanned', prev')) :
          LET p == scan_table(scanned', prev')[i]
          IN  ( /\ p.pid \in resumed
                /\ p.running /\ p.uid # 0
                /\ ~is_priority_proc(p.comm, priority_procs)
                /\ ~is_system_critical(p.comm)
                /\ (RGtInt(p.cpu_pct, 10) \/ p.rss_kb > 500000) ) =>
              p.pid \in attempted(signals', "SIGSTOP") ]_vars

\* A policy pass has just stopped and marked a process that the resume-all
\* command had continued.
C25_Witness ==
  /\ lastOp = "timer_proc"
  /\ auto_manage_enabled
  /\ \E i \in 1..nprocs :
       /\ procs[i].pid \in resumed
       /\ procs[i].pid \in delivered(signals, "SIGSTOP")
       /\ procs[i].suspended_by_manager

(* ------------------------ Claim C26 (SpecCpu) ------------------------- *)
\* C26: a sampling tick that cannot open /proc/stat reports utilization 0
\* for the aggregate and every core, still writes a sample for every
\* detected core at the cursor slot and advances the cursor by one, and the
\* memory ring of the same tick is still written and advanced.
C26_UnreadableTickStillSamples ==
  [][ (lastOp' \in SampleOps /\ ~sampled'.stat_ok) =>
        /\ cpu'.total = RZero
        /\ \A i \in 0..(CoreSlots - 1) : cpu'.core[i] = RZero
        /\ hpos' = (hpos + 1) % HIST_W
        /\ \A i \in 0..(CoreSlots - 1) :
             i < cpu'.ncores => hist_cpu'[i][hpos] = RZero
        /\ mem_hpos' = (mem_hpos + 1) % HIST_W ]_vars

(* ------------------------ Claim C27 (SpecLoop) ------------------------ *)
\* C27: inside the loop, a step that takes a CPU and memory sample comes at
\* least CPU_MS after t_cpu was last set, a step that scans the processes
\* comes at least PROC_MS after t_proc was last set, t_cpu is set only by a
\* step that finds the first time passed and t_proc only by one that finds
\* the second passed.
C27_SampledOnlyWhenDue ==
  [][ pc = "loop" =>
        /\ mem_hpos' # mem_hpos => clock' - t_cpu >= CPU_MS
        /\ lastOp' \in ScanOps => clock' - t_proc >= PROC_MS
        /\ t_cpu' # t_cpu => clock' - t_cpu >= CPU_MS
        /\ t_proc' # t_proc => clock' - t_proc >= PROC_MS ]_vars

(* ------------------------ Claim C28 (SpecMem) ------------------------- *)
\* C28: every entry of the memory ring lies in [0, 1], whatever MemTotal and
\* MemAvailable were read, also with MemTotal 0, an unreadable
\* /proc/meminfo and MemAvailable above MemTotal.
C28_MemHistoryWithinUnitInterval ==
  \A j \in 0..(HIST_W - 1) : in01(hist_mem[j])

(* ---------------------- Claim C29 (FairSpecLive) ---------------------- *)
\* the handlers a key press runs
KeyOps ==
  {"key_back", "key_quit", "key_menu", "key_menu_procs", "key_add_priority",
   "key_menu_quit", "key_remove_priority", "key_toggle", "key_resume",
   "key_select", "key_sort",
   "key_kill", "key_stopcont", "key_plus", "key_minus"}

\* auto-management is on, a priority process is running and some record is
\* one the policy would stop
stop_due ==
  /\ pc = "loop"
  /\ auto_manage_enabled
  /\ priority_running(procs, priority_procs)
  /\ \E i \in 1..nprocs : stop_candidate(procs[i], priority_procs)

ResumeOps == {"key_resume", "key_toggle"}

\* C30: a resume pass sends SIGCONT only to records marked
\* suspended_by_manager, and to no record that the stop/continue command of
\* the process page has put in the stopped state after the stop of the
\* policy was lifted.
C30_ResumeOnlyPolicyStops ==
  [][ lastOp' \in ResumeOps =>
        \A k \in 1..Len(signals') :
          /\ signals'[k].sig = "SIGCONT"
          /\ \E i \in 1..nprocs :
               /\ procs[i].pid = signals'[k].pid
               /\ procs[i].suspended_by_manager
               /\ (procs[i].running \/ procs[i].pid \in held) ]_vars

====
